---- MODULE Spec2Model ----
(***************************************************************************)
(* A model of src/gdriveread.py: the Streamlit script main() and the       *)
(* methods of StreamlitGoogleDriveReader it drives.                        *)
(*                                                                         *)
(* One run of the script is a sequence of steps, tracked by pc:            *)
(*   "idle"          no run in progress; the page of the last run is shown *)
(*   "callback"      authenticate_user is about to call                    *)
(*                   handle_oauth_callback                                 *)
(*   "authenticate"  the rest of authenticate_user (and main's st.stop)    *)
(*   "build"         main calls build_service(token)                       *)
(*   "sidebar"       main renders the user box and the Logout button       *)
(*   "mode"          main renders the chosen mode and acts on its button   *)
(*   "batch"         the loop of main over filtered_files                  *)
(*   "summary"       main computes the summary and displays the results    *)
(*   "single"        main reads and displays the file of single-file mode  *)
(* st.session_state is assumed to outlive the redirect round trip to the   *)
(* authorization server, as the code assumes when it stores oauth_state.   *)
(* Python dicts are functions; `key in d` is key \in DOMAIN d.             *)
(***************************************************************************)
EXTENDS Integers, Sequences, FiniteSets, TLC

\* Bounds of the model.
MaxNonce == 2       \* state values the authorization endpoint mints
MaxTok == 2         \* access tokens the token endpoint mints
TickSeconds == 1800 \* seconds that pass in one step of the clock
MaxAge == 3600      \* the clock stops once the current token is this old
MaxFiles == 2       \* files a folder of the remote store holds at most

\* 'expires_in': 3600 of token_data.
ExpiresIn == 3600

\* Python values are records tagged with their type, so that None can be
\* told from every other value.
None == [type |-> "NoneType"]

Str(v) == [type |-> "str", val |-> v]

VARIABLES
    session_state,   \* st.session_state: keys auth_token, user_info, oauth_state
    query_params,    \* the query string of the browser's URL: keys code, state
    pc,              \* position of the script run
    clicked,         \* the button whose click started this run ("none" if none)
    rendered,        \* the buttons on the page rendered so far
    callback_token,  \* authenticate_user: result of handle_oauth_callback
    token,           \* main: result of authenticate_user
    service,         \* reader.service: the credentials the Drive client holds
    nonce_seq,       \* authorization endpoint: the next state value to mint
    token_seq,       \* token endpoint: the next access token to mint
    token_age,       \* seconds since the session's access token was issued
    refresh_requests,\* token endpoint: refresh requests received
    cb,              \* observation of the handle_oauth_callback call just made
    validation,      \* observation of the build_service call just made
    drive,           \* remote store: the mimeTypes of the folder's files, by name
    selected_types,  \* main: the mimeTypes the type filter lets through
    filtered_files,  \* main: the descriptors the loop runs over
    idx,             \* main: the position of the loop in filtered_files
    results,         \* main: the results read so far
    file_info,       \* main: the descriptor of single-file mode
    summary,         \* main: the summary counts, once computed
    responses,       \* observation: the remote store's answer for each result
    last_call,       \* observation of the last remote call of this run
    stale,           \* time has passed since build_service last returned True
    discarded,       \* the access tokens Logout has removed from the session
    accepted         \* the state values callbacks have passed the check with

authVars == <<session_state, query_params, nonce_seq, token_seq, refresh_requests,
              cb, validation, discarded, accepted>>

fileVars == <<selected_types, filtered_files, idx, results, file_info, summary,
              responses>>

vars == <<session_state, query_params, pc, clicked, rendered, callback_token,
          token, service, nonce_seq, token_seq, token_age, refresh_requests,
          cb, validation, drive, selected_types, filtered_files, idx, results,
          file_info, summary, responses, last_call, stale, discarded, accepted>>

----------------------------------------------------------------------------
\* Dict helpers.

Without(d, keys) == [k \in DOMAIN d \ keys |-> d[k]]

With(d, key, value) == [k \in DOMAIN d \cup {key} |-> IF k = key THEN value ELSE d[k]]

EmptyDict == [k \in {} |-> None]

\* The authorization codes a request may carry: the program hands the code
\* to flow.fetch_token and never looks at it.
Codes == {"4/0Ab"}

\* The state values a request may carry: every one the endpoint can mint,
\* and one it never mints.
States == 1..(MaxNonce + 1)

\* The query strings a browser request may carry: none, a code alone, or
\* the code and the state of a redirect.
QueryParams ==
    {EmptyDict}
        \cup {[code |-> c] : c \in Codes}
        \cup {[code |-> c, state |-> s] : c \in Codes, s \in States}

Buttons == {"login_ulang", "logout", "baca_folder", "baca_file"}

----------------------------------------------------------------------------
\* Remote calls, as observed.

NoCall == [op |-> "none"]

\* The lifetime of the session's access token has elapsed.
LifetimeElapsed == token_age >= ExpiresIn

\* No call of build_service has just been made.
NoValidation ==
    [called |-> FALSE, expired |-> FALSE, had_refresh |-> FALSE,
     before |-> EmptyDict, after |-> EmptyDict, requests |-> 0,
     accepts |-> FALSE, result |-> FALSE]

\* A call of the Drive API made with the credentials of reader.service.
Call(op) ==
    [op |-> op, token |-> service.token, stale |-> stale,
     expired |-> LifetimeElapsed]

----------------------------------------------------------------------------
\* The start of a run of main(): a fresh reader, no locals, an empty page.
RunStart(click) ==
    /\ pc' = "callback"
    /\ clicked' = click
    /\ rendered' = {}
    /\ callback_token' = None
    /\ token' = None
    /\ service' = None
    /\ selected_types' = {}
    /\ filtered_files' = << >>
    /\ idx' = 0
    /\ results' = << >>
    /\ file_info' = None
    /\ summary' = None
    /\ responses' = << >>
    /\ last_call' = NoCall

\* st.stop(), or the end of main(): the run is over and the page stays.
RunEnd(buttons) ==
    /\ pc' = "idle"
    /\ rendered' = buttons

\* The browser requests the app's URL with query string qp: a first visit,
\* a reload (qp = query_params), or the redirect back from the
\* authorization server.
BrowserRequest(qp) ==
    /\ pc = "idle"
    /\ query_params' = qp
    /\ RunStart("none")
    /\ UNCHANGED <<session_state, nonce_seq, token_seq, token_age,
                   refresh_requests, cb, validation, drive, stale, discarded,
                   accepted>>

\* The user clicks a button of the page: Streamlit reruns the script, and
\* st.button returns True for that button in this run.
WidgetClick(b) ==
    /\ pc = "idle"
    /\ b \in rendered
    /\ RunStart(b)
    /\ UNCHANGED <<session_state, query_params, nonce_seq, token_seq, token_age,
                   refresh_requests, cb, validation, drive, stale, discarded,
                   accepted>>

\* Time passes.
Tick ==
    /\ "auth_token" \in DOMAIN session_state
    /\ token_age < MaxAge
    /\ token_age' = token_age + TickSeconds
    /\ stale' = TRUE
    /\ UNCHANGED <<session_state, query_params, pc, clicked, rendered,
                   callback_token, token, service, nonce_seq, token_seq,
                   refresh_requests, cb, validation, drive, fileVars,
                   last_call, discarded, accepted>>

----------------------------------------------------------------------------
\* handle_oauth_callback

\* A check that compares the state only when one is pending.
StateMismatchWhenPending(ss, returned_state) ==
    /\ "oauth_state" \in DOMAIN ss
    /\ ss.oauth_state # returned_state

\* st.session_state.get('oauth_state') != returned_state; None differs from
\* every string.
StateMismatch(ss, returned_state) ==
    \/ "oauth_state" \notin DOMAIN ss
    \/ ss.oauth_state # returned_state

\* token_data of a successful exchange.
TokenData(access, refresh) ==
    [access_token |-> access, refresh_token |-> refresh, expires_in |-> ExpiresIn]

\* What the call of handle_oauth_callback just made did: the session and
\* the query string it found, and whether it called flow.fetch_token
\* (exchanged) for a state value an earlier call had already let through to
\* the exchange (replayed). The session and the query string it left are
\* those of the state that follows it, where pc = "authenticate".
CallbackSeen(exchanged) ==
    [called |-> TRUE, before |-> session_state, params |-> query_params,
     exchanged |-> exchanged,
     replayed |-> exchanged /\ query_params.state \in accepted]

\* No call of handle_oauth_callback has just been made.
NoCallback ==
    [called |-> FALSE, before |-> EmptyDict, params |-> EmptyDict,
     exchanged |-> FALSE, replayed |-> FALSE]

\* The session after a successful exchange.
StoreToken(ss, token_data, user) ==
    With(With(ss, "auth_token", token_data), "user_info", user)

\* exchange_ok: flow.fetch_token succeeds; with_refresh: the token endpoint
\* returns a refresh token; profile_ok: the userinfo request succeeds.
handle_oauth_callback ==
    /\ pc = "callback"
    /\ pc' = "authenticate"
    /\ \E exchange_ok \in BOOLEAN, with_refresh \in BOOLEAN, profile_ok \in BOOLEAN :
        IF ~({"code", "state"} \subseteq DOMAIN query_params)
        THEN /\ callback_token' = None
             /\ cb' = CallbackSeen(FALSE)
             /\ UNCHANGED <<session_state, query_params, token_seq, token_age,
                            accepted>>
        ELSE IF StateMismatch(session_state, query_params.state)
        THEN /\ callback_token' = None
             /\ cb' = CallbackSeen(FALSE)
             /\ UNCHANGED <<session_state, query_params, token_seq, token_age,
                            accepted>>
        ELSE IF exchange_ok /\ token_seq <= MaxTok
        THEN LET token_data ==
                    TokenData(Str(token_seq),
                              IF with_refresh THEN Str(token_seq) ELSE None)
             IN  /\ session_state' =
                        StoreToken(session_state, token_data,
                                   IF profile_ok THEN "profile" ELSE "placeholder")
                 /\ query_params' = EmptyDict
                 /\ callback_token' = token_data
                 /\ token_seq' = token_seq + 1
                 /\ token_age' = 0
                 /\ cb' = CallbackSeen(TRUE)
                 /\ accepted' = accepted \cup {query_params.state}
        ELSE /\ callback_token' = None
             /\ cb' = CallbackSeen(TRUE)
             /\ accepted' = accepted \cup {query_params.state}
             /\ UNCHANGED <<session_state, query_params, token_seq, token_age>>
    /\ validation' = NoValidation
    /\ UNCHANGED <<clicked, rendered, token, service, nonce_seq, refresh_requests,
                   drive, fileVars, last_call, stale, discarded>>

----------------------------------------------------------------------------
\* A login page that keeps the state already pending.
KeepPendingState(ss) ==
    IF "oauth_state" \in DOMAIN ss THEN ss ELSE With(ss, "oauth_state", nonce_seq)

\* get_authorization_url: a fresh state value is minted and stored.
get_authorization_url(ss) == With(ss, "oauth_state", nonce_seq)

\* A return that hands out the access token alone.
StoredTokenWithoutRefresh(ss) == With(ss.auth_token, "refresh_token", None)

\* `return st.session_state.auth_token`
StoredToken(ss) == ss.auth_token

\* authenticate_user after its call of handle_oauth_callback, with main's
\* st.stop() when it returns None.
authenticate_user ==
    /\ pc = "authenticate"
    /\ IF callback_token # None
       THEN \* st.experimental_rerun()
            /\ RunStart("none")
            /\ UNCHANGED <<session_state, nonce_seq>>
       ELSE IF "auth_token" \in DOMAIN session_state
       THEN /\ token' = StoredToken(session_state)
            /\ pc' = "build"
            /\ UNCHANGED <<session_state, nonce_seq, clicked, rendered,
                           callback_token, service, fileVars, last_call>>
       ELSE /\ nonce_seq <= MaxNonce
            /\ session_state' = get_authorization_url(session_state)
            /\ nonce_seq' = nonce_seq + 1
            /\ RunEnd({})
            /\ UNCHANGED <<clicked, callback_token, token, service, fileVars,
                           last_call>>
    /\ cb' = NoCallback
    /\ UNCHANGED <<query_params, token_seq, token_age, refresh_requests,
                   validation, drive, stale, discarded, accepted>>

----------------------------------------------------------------------------
\* build_service

\* Credentials(token=..., refresh_token=..., ...): no expiry is passed.
Credentials(tok) ==
    [token |-> tok.access_token, refresh_token |-> tok.refresh_token,
     expiry |-> None]

\* An expiry test with its comparison turned around.
CredsExpiredInverted(creds, age) == age < ExpiresIn

\* creds.expired: credentials whose expiry is None never expire.
CredsExpired(creds, age) ==
    IF creds.expiry = None THEN FALSE ELSE age >= creds.expiry.val

\* `creds.expired and creds.refresh_token`
NeedsRefresh(creds, age) ==
    CredsExpired(creds, age) /\ creds.refresh_token # None

\* The keys main deletes on "Login Ulang" and on "Logout".
SessionKeys == {"auth_token", "user_info", "oauth_state"}

\* except: `del st.session_state.auth_token`
ClearInvalidToken(ss) == Without(ss, {"auth_token"})

\* creds.refresh(Request()) went through: the new access token is written
\* to the session.
StoreRefreshed(ss, access) ==
    With(ss, "auth_token", With(ss.auth_token, "access_token", access))

\* What the call of build_service just made did: whether the lifetime of
\* the token had elapsed (expired), whether it had a refresh token
\* (had_refresh), the session it found and left (before, after), the refresh
\* requests it sent (requests), whether the token endpoint would accept the
\* refresh token (accepts), and what it returned (result).
ValidationSeen(requests, accepts, after, result) ==
    [called |-> TRUE, expired |-> LifetimeElapsed,
     had_refresh |-> token.refresh_token # None,
     before |-> session_state, after |-> after, requests |-> requests,
     accepts |-> accepts, result |-> result]

\* build_service(token) and main's handling of its result.
\* refresh_ok: the token endpoint accepts the refresh token;
\* build_ok: build('drive', 'v3', ...) returns a client.
build_service ==
    /\ pc = "build"
    /\ \E refresh_ok \in BOOLEAN, build_ok \in BOOLEAN :
        LET creds == Credentials(token)
            refreshing == NeedsRefresh(creds, token_age)
            refreshed == refreshing /\ refresh_ok /\ token_seq <= MaxTok
            raised == (refreshing /\ ~refreshed) \/ ~build_ok
            kept == IF refreshed THEN StoreRefreshed(session_state, Str(token_seq))
                    ELSE session_state
            after == IF raised THEN ClearInvalidToken(kept) ELSE kept
        IN  /\ validation' = ValidationSeen(IF refreshing THEN 1 ELSE 0, refresh_ok,
                                            after, ~raised)
            /\ refresh_requests' = IF refreshing THEN refresh_requests + 1
                                                  ELSE refresh_requests
            /\ token_seq' = IF refreshed THEN token_seq + 1 ELSE token_seq
            /\ token_age' = IF refreshed THEN 0 ELSE token_age
            /\ IF ~raised
               THEN /\ session_state' = after
                    /\ service' = IF refreshed THEN With(creds, "token", Str(token_seq))
                                               ELSE creds
                    /\ pc' = "sidebar"
                    /\ stale' = FALSE
                    /\ UNCHANGED <<clicked, rendered, callback_token, token,
                                   fileVars, last_call>>
               ELSE \* main shows "Login Ulang"
                    /\ UNCHANGED stale
                    /\ IF clicked = "login_ulang"
                       THEN /\ session_state' = Without(after, SessionKeys)
                            /\ RunStart("none")
                       ELSE /\ session_state' = after
                            /\ RunEnd({"login_ulang"})
                            /\ UNCHANGED <<clicked, callback_token, token, service,
                                           fileVars, last_call>>
    /\ UNCHANGED <<query_params, nonce_seq, cb, drive, discarded, accepted>>

----------------------------------------------------------------------------
\* A logout whose list of keys lacks 'auth_token'.
LogoutKeepsToken(ss) == Without(ss, {"user_info", "oauth_state"})

\* main, lines 602-606: the Logout button deletes the session's keys.
Logout(ss) == Without(ss, SessionKeys)

\* main, lines 595-606: the user box of the sidebar and the Logout button.
sidebar ==
    /\ pc = "sidebar"
    /\ IF "user_info" \in DOMAIN session_state /\ clicked = "logout"
       THEN /\ session_state' = Logout(session_state)
            /\ discarded' = discarded \cup {session_state.auth_token.access_token}
            /\ RunStart("none")
       ELSE /\ rendered' = IF "user_info" \in DOMAIN session_state
                           THEN rendered \cup {"logout"} ELSE rendered
            /\ pc' = "mode"
            /\ UNCHANGED <<session_state, discarded, clicked, callback_token, token,
                           service, fileVars, last_call>>
    /\ validation' = NoValidation
    /\ UNCHANGED <<query_params, nonce_seq, token_seq, token_age, refresh_requests,
                   cb, drive, stale, accepted>>

----------------------------------------------------------------------------
\* The remote store and the payloads it serves.

MimeTypes ==
    {"application/vnd.google-apps.document",
     "application/vnd.google-apps.spreadsheet",
     "application/vnd.google-apps.folder",
     "application/pdf",
     "application/vnd.openxmlformats-officedocument.wordprocessingml.document",
     "application/vnd.openxmlformats-officedocument.spreadsheetml.sheet",
     "application/vnd.ms-excel",
     "text/plain",
     "text/csv",
     "application/csv",
     "application/json",
     "application/x-unknown"}

\* The folders a listing may return: up to MaxFiles files, ordered by name.
Folders == UNION {[1..n -> MimeTypes] : n \in 0..MaxFiles}

\* The folder the session is run against.
SampleFolder == <<"application/pdf", "application/vnd.google-apps.document">>

\* A file of the listing: its position stands for its id and its name.
Descriptor(i, mime) == [id |-> i, name |-> i, mimeType |-> mime]

ListChildren(folder) == [i \in 1..Len(folder) |-> Descriptor(i, folder[i])]

\* bytes: the format of the payload, and the text it carries.
Bytes(fmt, text) == [type |-> "bytes", fmt |-> fmt, val |-> text]

EmptyBytes == Bytes("utf8", << >>)

CsvText == <<"a", ",", "b", "\n", "1", ",", "2", "\n", "3", ",", "4">>

JsonText == <<"{", "\"x\"", ":", "1", "}">>

BadJsonText == <<"{", "\"x\"", ":", "}">>

Payloads ==
    {EmptyBytes,
     Bytes("utf8", CsvText),
     Bytes("utf8", JsonText),
     Bytes("utf8", BadJsonText),
     Bytes("binary", <<"\\xff">>),
     Bytes("pdf", <<"p", "1">>),
     Bytes("docx", <<"d", "1">>),
     Bytes("xlsx", <<"a", "1">>)}

\* What the remote store answers to a download or an export: the payload,
\* an HttpError, or another exception of the transport.
Responses ==
    {[status |-> "ok", body |-> b] : b \in Payloads}
        \cup {[status |-> "http_error", body |-> EmptyBytes],
              [status |-> "error", body |-> EmptyBytes]}

----------------------------------------------------------------------------
\* A call returns a value or raises; the text of the exception is str(e).

Ret(v) == [raised |-> FALSE, value |-> v]

Raise(msg) == [raised |-> TRUE, value |-> Str(msg)]

\* bytes.decode('utf-8')
Decode(b) ==
    IF b.fmt = "utf8" THEN Ret(Str(b.val))
    ELSE Raise(<<"'utf-8' codec can't decode">>)

\* download_file: HttpError is caught and None returned.
download_file(resp) ==
    CASE resp.status = "ok" -> Ret(resp.body)
      [] resp.status = "http_error" -> Ret(None)
      [] OTHER -> Raise(<<"transport error">>)

\* export_google_doc: HttpError is caught and None returned.
export_google_doc(resp) ==
    CASE resp.status = "ok" -> Decode(resp.body)
      [] resp.status = "http_error" -> Ret(None)
      [] OTHER -> Raise(<<"transport error">>)

\* The segments of s between the occurrences of sep.
RECURSIVE SplitOn(_, _)
SplitOn(s, sep) ==
    IF \A i \in 1..Len(s) : s[i] # sep THEN <<s>>
    ELSE LET i == CHOOSE j \in 1..Len(s) :
                      s[j] = sep /\ \A k \in 1..(j - 1) : s[k] # sep
         IN  <<SubSeq(s, 1, i - 1)>> \o SplitOn(SubSeq(s, i + 1, Len(s)), sep)

\* list(csv.reader(io.StringIO(text))) for text without quotes: one row per
\* line, an empty row for an empty line, no row after a final newline.
CsvRows(text) ==
    LET lines == SplitOn(text, "\n")
        kept == IF lines[Len(lines)] = << >> THEN SubSeq(lines, 1, Len(lines) - 1)
                ELSE lines
    IN  [i \in 1..Len(kept) |->
            IF kept[i] = << >> THEN << >> ELSE SplitOn(kept[i], ",")]

List(rows) == [type |-> "list", val |-> rows]

\* json.loads on the payloads of the model.
JsonLoads(text) ==
    IF text = JsonText THEN Ret([type |-> "dict", val |-> [x |-> 1]])
    ELSE Raise(<<"Expecting value">>)

\* PyPDF2.PdfReader and extract_text of the one page, with "\n" appended.
PdfText(b) ==
    IF b.fmt = "pdf" THEN Ret(Str(b.val \o <<"\n">>))
    ELSE Raise(<<"EOF marker not found">>)

\* docx.Document and the join of its paragraphs.
DocxText(b) ==
    IF b.fmt = "docx" THEN Ret(Str(b.val))
    ELSE Raise(<<"File is not a zip file">>)

\* pd.read_excel
ReadExcel(b) ==
    IF b.fmt = "xlsx" THEN Ret([type |-> "DataFrame", val |-> <<b.val>>])
    ELSE Raise(<<"Excel file format cannot be determined">>)

\* `if content:` for the str or None export_google_doc returns, and
\* `if file_content:` for the bytes or None download_file returns.
Truthy(v) == v # None /\ v.val # << >>

\* mime_type.startswith('text/')
StartsWithText(mime) == mime \in {"text/plain", "text/csv"}

DecodeThenJson(b) ==
    LET text == Decode(b)
    IN  IF text.raised THEN text ELSE JsonLoads(text.value.val)

DecodeThenCsv(b) ==
    LET text == Decode(b)
    IN  IF text.raised THEN text ELSE Ret(List(CsvRows(text.value.val)))

ExportThenCsv(resp) ==
    LET got == export_google_doc(resp)
    IN  IF got.raised THEN got
        ELSE IF Truthy(got.value) THEN Ret(List(CsvRows(got.value.val)))
        ELSE Ret(None)

\* What a branch that downloads does with the bytes it got.
Parse(branch, b) ==
    CASE branch = "pdf" -> PdfText(b)
      [] branch = "word" -> DocxText(b)
      [] branch = "excel" -> ReadExcel(b)
      [] branch = "text" -> Decode(b)
      [] branch = "csv" -> DecodeThenCsv(b)
      [] branch = "json" -> DecodeThenJson(b)

\* A branch that downloads: nothing is set when the download returned None
\* or no bytes.
Downloaded(resp, branch) ==
    LET got == download_file(resp)
    IN  IF got.raised THEN got
        ELSE IF Truthy(got.value) THEN Parse(branch, got.value)
        ELSE Ret(None)

\* The branch of read_file_content's chain for mime_type: "unsupported"
\* is the else branch.
Branch(mime) ==
    IF mime = "application/vnd.google-apps.document" THEN "document"
    ELSE IF mime = "application/vnd.google-apps.spreadsheet" THEN "spreadsheet"
    ELSE IF mime = "application/pdf" THEN "pdf"
    ELSE IF mime = "application/vnd.openxmlformats-officedocument.wordprocessingml.document"
    THEN "word"
    ELSE IF mime \in {"application/vnd.openxmlformats-officedocument.spreadsheetml.sheet",
                      "application/vnd.ms-excel"}
    THEN "excel"
    ELSE IF StartsWithText(mime) THEN "text"
    ELSE IF mime = "text/csv" THEN "csv"
    ELSE IF mime = "application/json" THEN "json"
    ELSE "unsupported"

\* The remote call a branch makes.
RemoteOp(mime) ==
    CASE Branch(mime) \in {"document", "spreadsheet"} -> "export"
      [] Branch(mime) = "unsupported" -> "none"
      [] OTHER -> "download"

\* The try block of read_file_content: the content it computes, or the
\* exception it raises.
Extract(mime, resp) ==
    CASE Branch(mime) = "document" -> export_google_doc(resp)
      [] Branch(mime) = "spreadsheet" -> ExportThenCsv(resp)
      [] Branch(mime) = "pdf" -> Downloaded(resp, "pdf")
      [] Branch(mime) = "word" -> Downloaded(resp, "word")
      [] Branch(mime) = "excel" -> Downloaded(resp, "excel")
      [] Branch(mime) = "text" -> Downloaded(resp, "text")
      [] Branch(mime) = "csv" -> Downloaded(resp, "csv")
      [] Branch(mime) = "json" -> Downloaded(resp, "json")
      [] OTHER -> Ret(None)

\* A chain without its else branch: a type it does not know gets no error.
ReadWithoutElse(info, resp) ==
    LET result == [name |-> info.name, id |-> info.id, mime_type |-> info.mimeType,
                   content |-> None, error |-> None]
        got == Extract(info.mimeType, resp)
    IN  IF got.raised THEN [result EXCEPT !.error = got.value]
        ELSE [result EXCEPT !.content = got.value]

\* read_file_content(file_info), the remote store answering resp.
read_file_content(info, resp) ==
    LET result == [name |-> info.name, id |-> info.id, mime_type |-> info.mimeType,
                   content |-> None, error |-> None]
        got == Extract(info.mimeType, resp)
    IN  IF Branch(info.mimeType) = "unsupported"
        THEN [result EXCEPT !.error =
                  Str(<<"Tipe file ", info.mimeType, " belum didukung">>)]
        ELSE IF got.raised THEN [result EXCEPT !.error = got.value]
        ELSE [result EXCEPT !.content = got.value]

----------------------------------------------------------------------------
\* main: the two modes.

Modes == {"folder", "single"}

\* The text of the URL field: empty, not a Drive URL, or a Drive URL.
Urls == {"empty", "invalid", "valid"}

\* A listing or a metadata request: answered, refused with an HttpError, or
\* failed with another exception.
ApiOutcomes == {"ok", "http_error", "error"}

\* The name the type filter shows for a mimeType: the last dotted part in
\* title case for the google-apps types, the part after "/" in upper case
\* for the others.
Readable(mime) ==
    CASE mime = "application/vnd.google-apps.document" -> "Document"
      [] mime = "application/vnd.google-apps.spreadsheet" -> "Spreadsheet"
      [] mime = "application/vnd.google-apps.folder" -> "Folder"
      [] mime = "application/pdf" -> "PDF"
      [] mime = "application/vnd.openxmlformats-officedocument.wordprocessingml.document"
            -> "VND.OPENXMLFORMATS-OFFICEDOCUMENT.WORDPROCESSINGML.DOCUMENT"
      [] mime = "application/vnd.openxmlformats-officedocument.spreadsheetml.sheet"
            -> "VND.OPENXMLFORMATS-OFFICEDOCUMENT.SPREADSHEETML.SHEET"
      [] mime = "application/vnd.ms-excel" -> "VND.MS-EXCEL"
      [] mime = "text/plain" -> "PLAIN"
      [] mime = "text/csv" -> "CSV"
      [] mime = "application/csv" -> "CSV"
      [] mime = "application/json" -> "JSON"
      [] mime = "application/x-unknown" -> "X-UNKNOWN"

\* dict(zip(readable_types, file_types)): one mimeType for each name; the
\* order of list(set(...)) decides which, when two types share a name.
TypeMappings(files) ==
    LET file_types == {files[i].mimeType : i \in 1..Len(files)}
        readable_types == {Readable(t) : t \in file_types}
    IN  {m \in [readable_types -> file_types] : \A n \in readable_types : Readable(m[n]) = n}

\* selected_types, every name of the filter being selected (its default).
SelectedTypes(type_mapping) == {type_mapping[n] : n \in DOMAIN type_mapping}

\* A filter that lets every file through.
FilterFilesOff(files, type_mapping) == files

\* filtered_files: the files of the listing whose mimeType is selected.
FilterFiles(files, type_mapping) ==
    LET Selected(f) == f.mimeType \in SelectedTypes(type_mapping)
    IN  SelectSeq(files, Selected)

\* main, lines 608-751, up to the first file read.
\* chosen: the mode of the radio button; url: the URL field;
\* api: the answer to the listing or to the metadata request;
\* mime: the mimeType of the file of single-file mode.
main_mode ==
    /\ pc = "mode"
    /\ \E chosen \in Modes, url \in Urls, api \in ApiOutcomes, mime \in MimeTypes :
        LET mode == IF clicked = "baca_folder" THEN "folder"
                    ELSE IF clicked = "baca_file" THEN "single"
                    ELSE chosen
            button == IF mode = "folder" THEN "baca_folder" ELSE "baca_file"
            page == rendered \cup {button}
            files == IF api = "ok" THEN ListChildren(drive) ELSE << >>
        IN  IF clicked # button \/ url # "valid"
            THEN /\ RunEnd(page)
                 /\ UNCHANGED <<fileVars, last_call>>
            ELSE IF mode = "folder"
            THEN /\ last_call' = Call("list")
                 /\ IF api = "error" \/ files = << >>
                    THEN /\ RunEnd(page)
                         /\ UNCHANGED fileVars
                    ELSE \E type_mapping \in TypeMappings(files) :
                            LET filtered == FilterFiles(files, type_mapping)
                            IN  IF filtered = << >>
                                THEN /\ RunEnd(page)
                                     /\ UNCHANGED fileVars
                                ELSE /\ selected_types' = SelectedTypes(type_mapping)
                                     /\ filtered_files' = filtered
                                     /\ idx' = 1
                                     /\ pc' = "batch"
                                     /\ rendered' = page
                                     /\ UNCHANGED <<results, file_info, summary,
                                                    responses>>
            ELSE /\ last_call' = Call("get")
                 /\ IF api = "ok"
                    THEN /\ file_info' = Descriptor(1, mime)
                         /\ pc' = "single"
                         /\ rendered' = page
                         /\ UNCHANGED <<selected_types, filtered_files, idx,
                                        results, summary, responses>>
                    ELSE /\ RunEnd(page)
                         /\ UNCHANGED fileVars
    /\ UNCHANGED <<authVars, clicked, callback_token, token, service, token_age,
                   drive, stale>>

\* No request is made for a type read_file_content does not support.
NoResponse == [status |-> "none", body |-> EmptyBytes]

ResponsesFor(mime) == IF RemoteOp(mime) = "none" THEN {NoResponse} ELSE Responses

\* One file read: its result, the answer that produced it, the call made.
ReadInto(info, resp) ==
    /\ results' = Append(results, read_file_content(info, resp))
    /\ responses' = Append(responses, resp)
    /\ last_call' = IF RemoteOp(info.mimeType) = "none" THEN last_call
                    ELSE Call(RemoteOp(info.mimeType))

\* main, lines 682-687: one iteration of the loop over filtered_files.
read_next_file ==
    /\ pc = "batch"
    /\ LET file == filtered_files[idx]
       IN  IF file.mimeType # "application/vnd.google-apps.folder"
           THEN \E resp \in ResponsesFor(file.mimeType) : ReadInto(file, resp)
           ELSE UNCHANGED <<results, responses, last_call>>
    /\ idx' = idx + 1
    /\ pc' = IF idx = Len(filtered_files) THEN "summary" ELSE "batch"
    /\ UNCHANGED <<authVars, clicked, rendered, callback_token, token, service,
                   token_age, drive, stale, selected_types, filtered_files,
                   file_info, summary>>

\* bool(v) of a content or an error: the truth value of a DataFrame is
\* ambiguous and raises ValueError.
Bool(v) ==
    CASE v.type = "NoneType" -> Ret(FALSE)
      [] v.type = "DataFrame" -> Raise(<<"The truth value of a DataFrame is ambiguous">>)
      [] v.type = "dict" -> Ret(TRUE)
      [] OTHER -> Ret(v.val # << >>)

\* r['content'] and not r['error']
ContentAndNoError(r) ==
    LET c == Bool(r.content)
    IN  IF c.raised THEN c
        ELSE IF ~c.value THEN Ret(FALSE)
        ELSE Ret(~Bool(r.error).value)

\* main, lines 697-703: the counts, or the exception of the comprehension.
Summarize(rs) ==
    IF \E i \in 1..Len(rs) : ContentAndNoError(rs[i]).raised
    THEN [raised |-> TRUE]
    ELSE LET successful == Cardinality({i \in 1..Len(rs) : ContentAndNoError(rs[i]).value})
         IN  [raised |-> FALSE, successful |-> successful,
              failed |-> Len(rs) - successful, total |-> Len(rs)]

\* main, lines 689-707: the summary and the display of the results.
summarize ==
    /\ pc = "summary"
    /\ summary' = IF results = << >> THEN None ELSE Summarize(results)
    /\ RunEnd(rendered)
    /\ UNCHANGED <<authVars, clicked, callback_token, token, service, token_age,
                   drive, stale, selected_types, filtered_files, idx, results,
                   file_info, responses, last_call>>

\* main, lines 742-744: the file of single-file mode is read and displayed.
read_single_file ==
    /\ pc = "single"
    /\ \E resp \in ResponsesFor(file_info.mimeType) : ReadInto(file_info, resp)
    /\ RunEnd(rendered)
    /\ UNCHANGED <<authVars, clicked, callback_token, token, service, token_age,
                   drive, stale, selected_types, filtered_files, idx, file_info,
                   summary>>

----------------------------------------------------------------------------
\* A first visit: an empty session, no run yet.
InitSession ==
    /\ session_state = EmptyDict
    /\ query_params = EmptyDict
    /\ pc = "idle"
    /\ clicked = "none"
    /\ rendered = {}
    /\ callback_token = None
    /\ token = None
    /\ service = None
    /\ nonce_seq = 1
    /\ token_seq = 1
    /\ token_age = 0
    /\ refresh_requests = 0
    /\ cb = NoCallback
    /\ validation = NoValidation
    /\ selected_types = {}
    /\ filtered_files = << >>
    /\ idx = 0
    /\ results = << >>
    /\ file_info = None
    /\ summary = None
    /\ responses = << >>
    /\ last_call = NoCall
    /\ stale = FALSE
    /\ discarded = {}
    /\ accepted = {}

Init ==
    /\ InitSession
    /\ drive = SampleFolder

Next ==
    \/ \E qp \in QueryParams : BrowserRequest(qp)
    \/ \E b \in Buttons : WidgetClick(b)
    \/ Tick
    \/ handle_oauth_callback
    \/ authenticate_user
    \/ build_service
    \/ sidebar
    \/ main_mode
    \/ read_next_file
    \/ summarize
    \/ read_single_file

Spec == Init /\ [][Next]_vars

\* The reading of files alone: the run of a signed-in session that has
\* reached the mode section after a click on one of the two read buttons,
\* against any folder of the remote store.
InitFiles ==
    LET token_data == TokenData(Str(1), Str(1))
        signed_in == [auth_token |-> token_data, user_info |-> "profile",
                      oauth_state |-> 1]
    IN  /\ session_state = signed_in
        /\ query_params = EmptyDict
        /\ pc = "mode"
        /\ clicked \in {"baca_folder", "baca_file"}
        /\ rendered = {"logout"}
        /\ callback_token = None
        /\ token = token_data
        /\ service = Credentials(token_data)
        /\ nonce_seq = 2
        /\ token_seq = 2
        /\ token_age = 0
        /\ refresh_requests = 0
        /\ cb = NoCallback
        /\ validation = NoValidation
        /\ selected_types = {}
    /\ filtered_files = << >>
        /\ idx = 0
        /\ results = << >>
        /\ file_info = None
        /\ summary = None
        /\ responses = << >>
        /\ last_call = NoCall
        /\ stale = FALSE
        /\ discarded = {}
        /\ accepted = {1}
        /\ drive \in Folders

NextFiles ==
    \/ main_mode
    \/ read_next_file
    \/ summarize
    \/ read_single_file

SpecFiles == InitFiles /\ [][NextFiles]_vars

----------------------------------------------------------------------------
\* Properties.

\* The query string carries both parameters of a redirect.
Presented(params) == {"code", "state"} \subseteq DOMAIN params

\* Two sessions hold the same Credential, or both hold none.
SameToken(a, b) ==
    /\ ("auth_token" \in DOMAIN a) = ("auth_token" \in DOMAIN b)
    /\ "auth_token" \in DOMAIN a => a.auth_token = b.auth_token

\* The callback just handled carried a state that differs from the pending
\* nonce, or no nonce was pending.
ReturnedStateDiffers ==
    /\ cb.called
    /\ Presented(cb.params)
    /\ \/ "oauth_state" \notin DOMAIN cb.before
       \/ cb.before.oauth_state # cb.params.state

\* C1: a callback whose returned state differs from the pending nonce (or
\* that finds no pending nonce) fails: handle_oauth_callback returns None,
\* attempts no token exchange, and leaves auth_token as it was.
C1_StateMismatchStoresNothing ==
    ReturnedStateDiffers =>
        /\ ~cb.exchanged
        /\ callback_token = None
        /\ SameToken(session_state, cb.before)

\* A callback carrying another state than the pending one has been handled.
C1_Witness ==
    /\ ReturnedStateDiffers
    /\ "oauth_state" \in DOMAIN cb.before
    /\ pc = "authenticate"

\* C2: the pending nonce is single-use: once a callback presenting a code
\* and a state has been handled, oauth_state is gone from the session,
\* whatever the outcome, and no state is let through to the exchange twice.
C2_NonceConsumed ==
    /\ (cb.called /\ Presented(cb.params)) => "oauth_state" \notin DOMAIN session_state
    /\ ~cb.replayed

\* C3: once the callback handler has processed code and state, the query
\* parameters are cleared on every outcome, and a rerun started by a widget
\* never attempts the exchange again.
C3_ParamsCleared ==
    /\ (cb.called /\ Presented(cb.params)) => query_params = EmptyDict
    /\ (cb.called /\ clicked # "none") => ~cb.exchanged

\* build_service has just run on a Credential whose lifetime had elapsed and
\* that holds a refresh token.
ExpiredWithRefreshToken ==
    /\ validation.called
    /\ validation.expired
    /\ validation.had_refresh

\* C4: a credential validation that observes an expired Credential with a
\* refresh token issues exactly one refresh request (the runs of a session
\* are serialized by Streamlit, so the callers come one at a time).
C4_ExactlyOneRefresh ==
    ExpiredWithRefreshToken => validation.requests = 1

C6_ExpiredIsRefreshed ==
    (ExpiredWithRefreshToken /\ validation.accepts /\ validation.result) =>
        /\ "auth_token" \in DOMAIN validation.after
        /\ validation.after.auth_token.access_token
               # validation.before.auth_token.access_token

\* C7: when the Credential is expired and no refresh token is present, or
\* the token endpoint rejects it, credential validation returns False and
\* auth_token is removed.
C7_ExpiredWithoutRefreshFails ==
    (/\ validation.called
     /\ validation.expired
     /\ ~validation.had_refresh \/ ~validation.accepts) =>
        /\ ~validation.result
        /\ "auth_token" \notin DOMAIN validation.after

\* C8: a Credential that Logout has discarded is never the Credential of
\* the session again, the Drive client never holds it, and no remote call
\* is made with it.
C8_LogoutDiscards ==
    /\ "auth_token" \in DOMAIN session_state =>
           session_state.auth_token.access_token \notin discarded
    /\ service # None => service.token \notin discarded
    /\ last_call.op # "none" => last_call.token \notin discarded

\* After a logout the user has signed in again and a remote call was made.
C8_Witness ==
    /\ discarded # {}
    /\ "auth_token" \in DOMAIN session_state
    /\ last_call.op # "none"

\* C9: every remote call is made with a Credential that has been validated
\* since time last passed, so none is made with a Credential that may have
\* expired since its validation.
C9_CallsAreValidated ==
    last_call.op # "none" => ~last_call.stale

\* C10: every file whose retrieval fails (HttpError or another exception),
\* and every file of an unsupported type, has a result with an error.
C10_FailuresAreRecorded ==
    \A i \in 1..Len(results) :
        responses[i].status # "ok" => results[i].error # None

\* A descriptor the batch is to read: its mimeType is one the type filter
\* lets through and is not the folder type.
Eligible(f) ==
    /\ f.mimeType \in selected_types
    /\ f.mimeType # "application/vnd.google-apps.folder"

\* The eligible descriptors of the listing, in the order of the listing.
EligibleFiles == SelectSeq(ListChildren(drive), Eligible)

\* C11: the batch yields exactly one result for each descriptor of the
\* listing whose mimeType is in the filter and is not a folder, in the
\* order of the listing, whichever files fail: while the loop runs the
\* results are those of the first eligible files, and when it ends there
\* are as many results as eligible files.
C11_OneResultPerEligibleFile ==
    pc \in {"batch", "summary"} =>
        /\ Len(results) <= Len(EligibleFiles)
        /\ \A i \in 1..Len(results) :
               /\ results[i].id = EligibleFiles[i].id
               /\ results[i].mime_type = EligibleFiles[i].mimeType
        /\ pc = "summary" => Len(results) = Len(EligibleFiles)

\* A batch of two files has been read, one of which failed.
C11_Witness ==
    /\ pc = "summary"
    /\ Len(results) = 2
    /\ results[1].id < results[2].id
    /\ \E i \in 1..2 : responses[i].status = "error"

\* The remote store serves the CSV payload a,b / 1,2 / 3,4.
ServesCsv(resp) == resp = [status |-> "ok", body |-> Bytes("utf8", CsvText)]

\* The rows of that payload.
CsvTable == List(<< <<"a", "b">>, <<"1", "2">>, <<"3", "4">> >>)

\* C12: the content extracted from a file of mimeType text/csv is the table
\* of its rows, not its text: for the payload a,b / 1,2 / 3,4 it is
\* [[a,b],[1,2],[3,4]].
C12_CsvYieldsTable ==
    \A i \in 1..Len(results) :
        (results[i].mime_type = "text/csv" /\ ServesCsv(responses[i])) =>
            /\ results[i].content.type = "list"
            /\ results[i].content = CsvTable

\* A content or an error that is meaningfully populated: not None, and not
\* an empty text or an empty table.
Populated(v) ==
    /\ v # None
    /\ v.type \in {"str", "list"} => v.val # << >>

\* The remote store served a file without bytes.
EmptyFile(resp) == resp.status = "ok" /\ resp.body.val = << >>

\* C13: every result of read_file_content has its content or its error
\* populated, never both, and both are absent only for an empty file.
C13_ExactlyOneOfContentOrError ==
    \A i \in 1..Len(results) :
        /\ ~(Populated(results[i].content) /\ Populated(results[i].error))
        /\ (~Populated(results[i].content) /\ ~Populated(results[i].error))
               => EmptyFile(responses[i])

\* The results with a populated content and no error.
Succeeded ==
    {i \in 1..Len(results) :
        Populated(results[i].content) /\ results[i].error = None}

\* C14: for every list of results of a batch the summary is computed
\* without failure, its count of successes is the number of results with a
\* populated content and no error, and successes and failures add up to
\* the total, the number of results.
C14_SummaryCounts ==
    summary # None =>
        /\ ~summary.raised
        /\ summary.successful = Cardinality(Succeeded)
        /\ summary.successful + summary.failed = summary.total
        /\ summary.total = Len(results)

\* The mimeTypes of the remote store that match no supported class.
Unsupported == {"application/x-unknown", "application/csv"}

\* A descriptor that is not a folder.
IsFile(f) == f.mimeType # "application/vnd.google-apps.folder"

\* C15: a descriptor whose mimeType matches no supported class gets a
\* result without content and with an error that names the mimeType, no
\* download or export is requested for it, and the batch that holds it
\* ends with a result for every file it was to read.
C15_UnsupportedTypeIsReported ==
    /\ \A i \in 1..Len(results) :
           results[i].mime_type \in Unsupported =>
               /\ results[i].content = None
               /\ results[i].error =
                      Str(<<"Tipe file ", results[i].mime_type, " belum didukung">>)
               /\ responses[i].status = "none"
    /\ pc = "summary" => Len(results) = Len(SelectSeq(filtered_files, IsFile))

\* A batch of an unsupported file and a file that was read has ended.
C15_Witness ==
    /\ pc = "summary"
    /\ Len(results) = 2
    /\ results[1].mime_type = "application/x-unknown"
    /\ results[2].mime_type = "application/pdf"
    /\ results[2].error = None
    /\ results[2].content # None

\* The state value the authorization URL rendered last carries.
NewestState == nonce_seq - 1

\* The nonce pending in the session, if any, is the one issued last.
PendingIsNewest ==
    "oauth_state" \in DOMAIN session_state =>
        session_state.oauth_state = NewestState

\* The callback just handled carried a state of an earlier login page.
EarlierStatePresented ==
    /\ cb.called
    /\ Presented(cb.params)
    /\ cb.params.state < NewestState

\* authenticate_user is about to go on, after its callback handling
\* returned None, in a session without auth_token.
LoginPageDue ==
    /\ pc = "authenticate"
    /\ callback_token = None
    /\ "auth_token" \notin DOMAIN session_state

\* C16: at most one nonce is pending and it is the one issued last: every
\* run of authenticate_user without auth_token, the one that has just
\* rejected a callback included, mints a new state and overwrites
\* oauth_state with it, and a callback that carries the state of an earlier
\* login page is rejected.
C16_PendingNonceIsNewest ==
    /\ []PendingIsNewest
    /\ [](EarlierStatePresented => ~cb.exchanged /\ callback_token = None)
    /\ [][LoginPageDue =>
              /\ nonce_seq' = nonce_seq + 1
              /\ "oauth_state" \in DOMAIN session_state'
              /\ session_state'.oauth_state = nonce_seq]_vars

\* A callback with the state of an earlier login page has been rejected
\* while a newer state was pending.
C16_Witness ==
    /\ EarlierStatePresented
    /\ "oauth_state" \in DOMAIN cb.before
    /\ cb.before.oauth_state = NewestState

\* Two sessions hold the same user_info, or both hold none.
SameUser(a, b) ==
    /\ ("user_info" \in DOMAIN a) = ("user_info" \in DOMAIN b)
    /\ "user_info" \in DOMAIN a => a.user_info = b.user_info

\* The callback just handled was given a code and a state and failed: the
\* state did not match, or the token exchange raised.
FailedCallback ==
    /\ cb.called
    /\ Presented(cb.params)
    /\ callback_token = None

\* C17: a callback that fails leaves auth_token and user_info as they were
\* before the call, and in a session that was authenticated
\* authenticate_user goes on to return the Credential it held before.
C17_FailedCallbackKeepsSession ==
    /\ [](FailedCallback =>
              /\ SameToken(session_state, cb.before)
              /\ SameUser(session_state, cb.before))
    /\ [][(FailedCallback /\ "auth_token" \in DOMAIN cb.before /\ pc' # pc) =>
              /\ token' = cb.before.auth_token
              /\ pc' = "build"
              /\ session_state' = session_state]_vars

\* The token exchange of a callback has failed in a session that was
\* authenticated.
C17_Witness ==
    /\ FailedCallback
    /\ cb.exchanged
    /\ "auth_token" \in DOMAIN cb.before
    /\ "user_info" \in DOMAIN cb.before

====
